---------------------------- MODULE Spec2Model ----------------------------
(***************************************************************************)
(* scale_intensity_range of cucim/core/operations/intensity/scaling.py,    *)
(* modelled statement by statement as a state machine over one call.       *)
(*                                                                         *)
(* Floating-point values are records: a finite value is the exact rational *)
(* n/d in lowest terms, and +inf, -inf and NaN are values of their own.    *)
(* The inputs are dyadic rationals of small magnitude, for which the       *)
(* binary64 arithmetic of the Python code is exact, so that the rational   *)
(* arithmetic below computes what the code computes.  The division, the    *)
(* one operation that can leave the dyadic rationals, is defined only      *)
(* where its result is exact (FDiv); a zero is not signed (-0.0 == 0.0).   *)
(* The conversion to binary32 rounds (F32).                                *)
(*                                                                         *)
(* Device and host memory is a heap of flat buffers; an array is a record  *)
(* naming its buffer.  A buffer holds the leading MaxTrack elements of the *)
(* flat array (all of them when the array has no more than that).          *)
(***************************************************************************)
EXTENDS Integers, Sequences, FiniteSets, TLC

(***************************************************************************)
(* Bounds of the model.                                                    *)
(***************************************************************************)
MaxTrack == 2

(***************************************************************************)
(* Integer helpers.                                                        *)
(***************************************************************************)
Abs(i) == IF i < 0 THEN -i ELSE i

RECURSIVE Gcd(_, _)
Gcd(i, j) == IF j = 0 THEN i ELSE Gcd(j, i % j)

RECURSIVE Pow2(_)
Pow2(e) == IF e = 0 THEN 1 ELSE 2 * Pow2(e - 1)

RECURSIVE IsPow2(_)
IsPow2(d) == IF d = 1 THEN TRUE ELSE IF d % 2 = 1 THEN FALSE ELSE IsPow2(d \div 2)

(***************************************************************************)
(* IEEE-754 values and arithmetic (Python float, numpy.float32).           *)
(***************************************************************************)
\* n/d in lowest terms, d > 0
Fin(n, d) == LET g == Gcd(d, n % d) IN [k |-> "fin", n |-> n \div g, d |-> d \div g]

F(i) == Fin(i, 1)

PInf == [k |-> "pinf", n |-> 0, d |-> 1]

NInf == [k |-> "ninf", n |-> 0, d |-> 1]

NaN == [k |-> "nan", n |-> 0, d |-> 1]

None == [k |-> "none"]

IsFin(a) == a.k = "fin"

IsNaN(a) == a.k = "nan"

\* the sign of a non-NaN value: -1, 0 or 1
Sgn(a) ==
    CASE a.k = "pinf" -> 1
      [] a.k = "ninf" -> -1
      [] a.k = "fin"  -> IF a.n > 0 THEN 1 ELSE IF a.n < 0 THEN -1 ELSE 0

InfOfSign(s) == IF s > 0 THEN PInf ELSE NInf

FNeg(a) ==
    CASE a.k = "nan"  -> NaN
      [] a.k = "pinf" -> NInf
      [] a.k = "ninf" -> PInf
      [] a.k = "fin"  -> Fin(-a.n, a.d)

FAdd(a, b) ==
    CASE IsNaN(a) \/ IsNaN(b) -> NaN
      [] IsFin(a) /\ IsFin(b) -> Fin(a.n * b.d + b.n * a.d, a.d * b.d)
      [] IsFin(a) /\ ~IsFin(b) -> b
      [] ~IsFin(a) /\ IsFin(b) -> a
      [] OTHER -> IF a.k = b.k THEN a ELSE NaN

FSub(a, b) == FAdd(a, FNeg(b))

FMul(a, b) ==
    CASE IsNaN(a) \/ IsNaN(b) -> NaN
      [] IsFin(a) /\ IsFin(b) -> Fin(a.n * b.n, a.d * b.d)
      [] OTHER -> IF Sgn(a) * Sgn(b) = 0 THEN NaN ELSE InfOfSign(Sgn(a) * Sgn(b))

\* the exact quotient a/b of finite values, b # 0
Quotient(a, b) ==
    IF b.n > 0 THEN Fin(a.n * b.d, a.d * b.n) ELSE Fin(-(a.n * b.d), a.d * (-b.n))

\* Python's float division.  Python rounds the quotient to binary64; the
\* operator is defined where that rounding changes nothing (the quotient is
\* dyadic), and left undefined elsewhere, as it is for a zero divisor, which
\* line 76 has excluded where the code divides.
FDiv(a, b) ==
    CASE IsNaN(a) \/ IsNaN(b) -> NaN
      [] IsFin(a) /\ IsFin(b) /\ b.n # 0 /\ IsPow2(Quotient(a, b).d) -> Quotient(a, b)
      [] ~IsFin(a) /\ ~IsFin(b) -> NaN
      [] ~IsFin(a) /\ IsFin(b) /\ b.n # 0 -> InfOfSign(Sgn(a) * Sgn(b))
      [] IsFin(a) /\ ~IsFin(b) -> F(0)

\* IEEE comparisons: every comparison with NaN is false
FLt(a, b) ==
    CASE IsNaN(a) \/ IsNaN(b) -> FALSE
      [] IsFin(a) /\ IsFin(b) -> a.n * b.d < b.n * a.d
      [] OTHER -> (a.k = "ninf" /\ b.k # "ninf") \/ (b.k = "pinf" /\ a.k # "pinf")

FEq(a, b) == ~IsNaN(a) /\ ~IsNaN(b) /\ a = b

FLe(a, b) == FLt(a, b) \/ FEq(a, b)

\* int(v) / a C cast of an in-range value: truncation toward zero
Trunc(a) == IF a.n >= 0 THEN a.n \div a.d ELSE -((-a.n) \div a.d)


(***************************************************************************)
(* numpy.float32(v) / astype(float32): round to nearest, ties to even, on  *)
(* a 24-bit significand.  (Overflow to infinity and subnormals lie outside *)
(* the magnitudes of the model.)                                           *)
(***************************************************************************)
RECURSIVE ILog2(_)
ILog2(q) == IF q < 2 THEN 0 ELSE 1 + ILog2(q \div 2)

\* the least j with a * 2^j >= d, for 0 < a < d
RECURSIVE ShiftUp(_, _)
ShiftUp(a, d) == IF a >= d THEN 0 ELSE 1 + ShiftUp(2 * a, d)

\* floor(log2(a/d)) for a, d > 0
Exponent(a, d) == IF a >= d THEN ILog2(a \div d) ELSE -ShiftUp(a, d)

RoundHalfEven(num, den) ==
    LET q == num \div den
        r == num % den
    IN  IF 2 * r < den THEN q
        ELSE IF 2 * r > den THEN q + 1
        ELSE IF q % 2 = 0 THEN q ELSE q + 1

F32(v) ==
    IF ~IsFin(v) \/ v.n = 0 THEN v
    ELSE IF IsPow2(v.d) /\ Abs(v.n) < Pow2(24) THEN v
    ELSE LET a == Abs(v.n)
             s == IF v.n < 0 THEN -1 ELSE 1
             e == Exponent(a, v.d)
             sh == e - 23
         IN  IF sh >= 0
             THEN F(s * RoundHalfEven(a, v.d * Pow2(sh)) * Pow2(sh))
             ELSE Fin(s * RoundHalfEven(a * Pow2(-sh), v.d), Pow2(-sh))

(***************************************************************************)
(* Element types.                                                          *)
(***************************************************************************)
Dtypes == {"uint8", "int32", "float32", "float64"}

IsIntDtype(t) == t \in {"uint8", "int16", "int32"}

IntLo(t) == CASE t = "uint8" -> 0 [] t = "int16" -> -32768 [] t = "int32" -> -2147483647 - 1

IntHi(t) == CASE t = "uint8" -> 255 [] t = "int16" -> 32767 [] t = "int32" -> 2147483647

\* cupy.can_cast(from, float32), casting='safe' (line 90)
can_cast_float32(t) == t \in {"uint8", "int16", "float32"}

\* the values astype(t) can give for a binary32 value v.  A value that fits
\* is truncated toward zero.  The conversion of a value that does not fit
\* (also an infinity or a NaN) is undefined in C++: cupy documents that the
\* result differs between builds and from numpy; it saturates or wraps.
AstypeFromF32(v, t) ==
    IF ~IsIntDtype(t) THEN {v}
    ELSE IF ~IsFin(v) THEN {F(0), F(IntLo(t)), F(IntHi(t))}
    ELSE LET i == Trunc(v) IN
         IF IntLo(t) <= i /\ i <= IntHi(t) THEN {F(i)}
         ELSE {F(IF i < IntLo(t) THEN IntLo(t) ELSE IntHi(t)),
               F(((i - IntLo(t)) % (IntHi(t) - IntLo(t) + 1)) + IntLo(t))}

(***************************************************************************)
(* Element counts.  numpy.prod gives an int64, wider than the integers of  *)
(* TLC: a count is the pair hi, lo that stands for hi * W + lo, with       *)
(* 0 <= lo < W.                                                            *)
(***************************************************************************)
W == 128 * 256

WOfInt(i) == [hi |-> i \div W, lo |-> i % W]

\* w * m for 0 <= m <= W
WMul(w, m) == LET p == w.lo * m IN [hi |-> w.hi * m + p \div W, lo |-> p % W]

WAddInt(w, i) == LET s == w.lo + i IN [hi |-> w.hi + s \div W, lo |-> s % W]

\* floor(w / m) and w mod m for m dividing W
WDiv(w, m) == w.hi * (W \div m) + w.lo \div m

WMod(w, m) == w.lo % m

WLe(w, i) == w.hi < i \div W \/ (w.hi = i \div W /\ w.lo <= i % W)

\* numpy.prod(sh) (line 107)
RECURSIVE np_prod(_)
np_prod(sh) == IF sh = <<>> THEN WOfInt(1)
               ELSE WMul(np_prod(SubSeq(sh, 1, Len(sh) - 1)), sh[Len(sh)])

\* numpy.int32(n) of an int64 n: the low 32 bits, two's complement (line 116)
np_int32(w) ==
    LET h == w.hi % (4 * W) IN
    IF h >= 2 * W THEN (h - 4 * W) * W + w.lo ELSE h * W + w.lo


(***************************************************************************)
(* The inputs of a call.                                                   *)
(***************************************************************************)
\* element values of each type
Elems(t) ==
    CASE t = "uint8"   -> {F(0), F(255)}
      [] t = "int32"   -> {F(1), F(16777217)}
      [] t = "float32" -> {F(1), Fin(5, 2)}
      [] t = "float64" -> {F(0), F(16777217)}

Shapes == {<<2>>, <<2, 3, 5, 5>>, <<4, 32768, 32768>>}

AVals == {F(0), F(1), PInf}

BVals == {F(-1), Fin(1, 2), F(1)}

\* the number of leading elements of an array of shape sh a buffer holds
TrackLen(sh) ==
    IF WLe(np_prod(sh), MaxTrack) THEN np_int32(np_prod(sh)) ELSE MaxTrack

\* what the caller may pass as img: a numpy.ndarray, a cupy.ndarray (the
\* caller's buffer is buffer 1 of the heap), or a value that is no array
\* (a host array is taken C-contiguous: line 83 copies it to a C-contiguous
\* device buffer whatever its layout)
Arrays ==
    [k : {"ndarray"}, lib : {"cupy"}, dtype : Dtypes, shape : Shapes,
     contig : BOOLEAN, buf : {1}]
    \cup
    [k : {"ndarray"}, lib : {"numpy"}, dtype : Dtypes, shape : Shapes,
     contig : {TRUE}, buf : {1}]

NonArrays == {[k |-> "scalar"], [k |-> "str"]}

IsArray(v) == v.k = "ndarray"

\* the contents img may have
Contents(im) ==
    IF IsArray(im) THEN [1..TrackLen(im.shape) -> Elems(im.dtype)] ELSE {<< >>}

(***************************************************************************)
(* State.                                                                  *)
(***************************************************************************)
VARIABLES
    args,        \* the arguments as the caller passed them
    heap,        \* the flat buffers, by buffer number
    pc,          \* the statement the call is at
    img, b_max, b_min, a_max, a_min, clip,      \* the parameters (locals)
    to_cupy, cupy_img, x, y, total_size, gridx, result,   \* the other locals
    exc,         \* the exception in flight
    log,         \* the records _logger has been given
    outcome,     \* what the caller observes when the call has ended
    launches,    \* the kernel launches issued, in order
    trace        \* the statements executed, in order

vars == <<args, heap, pc, img, b_max, b_min, a_max, a_min, clip, to_cupy,
          cupy_img, x, y, total_size, gridx, result, exc, log, outcome,
          launches, trace>>

Init ==
    /\ \E im \in Arrays \cup NonArrays, bx \in BVals, bn \in BVals,
          ax \in AVals, an \in AVals, c \in BOOLEAN :
          \E d \in Contents(im) :
             /\ args = [img |-> im, data |-> d, b_max |-> bx, b_min |-> bn,
                        a_max |-> ax, a_min |-> an, clip |-> c]
             /\ img = im /\ b_max = bx /\ b_min = bn /\ a_max = ax
             /\ a_min = an /\ clip = c
             /\ heap = IF IsArray(im) THEN <<d>> ELSE << >>
    /\ pc = "range"
    /\ to_cupy = None /\ cupy_img = None /\ x = None /\ y = None
    /\ total_size = None /\ gridx = None /\ result = None
    /\ exc = None
    /\ log = << >>
    /\ outcome = None
    /\ launches = << >>
    /\ trace = << >>

(***************************************************************************)
(* Helpers of the statements.                                              *)
(***************************************************************************)
Exception(type, msg) == [k |-> "exc", type |-> type, msg |-> msg]

\* raise inside the try block: control passes to the except clause (line 124)
Raise(e) == /\ exc' = e
            /\ pc' = "except"

Step(name) == trace' = Append(trace, name)

\* a new buffer holding data; its number is Len(heap) + 1
NewBuf(data) == Append(heap, data)

\* the elements of a buffer converted to float32
F32Seq(s) == [i \in 1..Len(s) |-> F32(s[i])]

\* the sequences that take their i-th element from sets[i]
PickEach(sets) ==
    {f \in [1..Len(sets) -> UNION {sets[i] : i \in 1..Len(sets)}] :
        \A i \in 1..Len(sets) : f[i] \in sets[i]}


(***************************************************************************)
(* Lines 75-96: the degenerate-range check and the normalisation of img.   *)
(***************************************************************************)
range_error == Exception("ValueError", "Original intensity range min and max are same")

\* faulty variant: the wrong exception class
type_error_as_value_error == Exception("ValueError", "img must be a cupy.ndarray or numpy.ndarray")

type_error == Exception("TypeError", "img must be a cupy.ndarray or numpy.ndarray")

\* (the literal of lines 92-93 is continued with a backslash: the indentation
\* of line 93 is part of the message)
cast_error == Exception("ValueError", "Cannot safely cast type {cupy_img.dtype.name} to                     'float32'")

\* line 76: a_max - a_min == 0.0
RangeIsZero(amax, amin) == FEq(FSub(amax, amin), F(0))

\* lines 76-79
CheckRange ==
    /\ pc = "range"
    /\ Step("range")
    /\ IF RangeIsZero(a_max, a_min)
       THEN /\ Raise(range_error)
            /\ UNCHANGED to_cupy
       ELSE /\ to_cupy' = FALSE
            /\ pc' = "classify"
            /\ UNCHANGED exc
    /\ UNCHANGED <<args, heap, img, b_max, b_min, a_max, a_min, clip, cupy_img,
                   x, y, total_size, gridx, result, log, outcome, launches>>

\* cupy.asarray(a, dtype=cupy.float32, order='C') of a host array a, stored
\* in buffer b: a C-contiguous binary32 device array (line 83)
cupy_asarray_f32(a, b) ==
    [a EXCEPT !.lib = "cupy", !.dtype = "float32", !.contig = TRUE, !.buf = b]

\* lines 81-83: isinstance(img, np.ndarray)
NormalizeHost ==
    /\ pc = "classify"
    /\ IsArray(img) /\ img.lib = "numpy"
    /\ Step("classify")
    /\ to_cupy' = TRUE
    /\ heap' = NewBuf(F32Seq(heap[img.buf]))
    /\ cupy_img' = cupy_asarray_f32(img, Len(heap) + 1)
    /\ pc' = "dtype"
    /\ UNCHANGED <<args, img, b_max, b_min, a_max, a_min, clip, x, y,
                   total_size, gridx, result, exc, log, outcome, launches>>

\* lines 84-85: neither numpy.ndarray nor cupy.ndarray
RejectType ==
    /\ pc = "classify"
    /\ ~IsArray(img)
    /\ Step("classify")
    /\ Raise(type_error)
    /\ UNCHANGED <<args, heap, img, b_max, b_min, a_max, a_min, clip, to_cupy,
                   cupy_img, x, y, total_size, gridx, result, log, outcome,
                   launches>>

\* cupy.ascontiguousarray(a): a itself when a is C-contiguous, otherwise a
\* C-contiguous copy in buffer b (line 87)
cupy_ascontiguousarray(a, b) ==
    IF a.contig THEN a ELSE [a EXCEPT !.contig = TRUE, !.buf = b]

\* lines 86-87: a cupy.ndarray
NormalizeDevice ==
    /\ pc = "classify"
    /\ IsArray(img) /\ img.lib = "cupy"
    /\ Step("classify")
    /\ cupy_img' = cupy_ascontiguousarray(img, Len(heap) + 1)
    /\ heap' = IF img.contig THEN heap ELSE NewBuf(heap[img.buf])
    /\ pc' = "dtype"
    /\ UNCHANGED <<args, img, b_max, b_min, a_max, a_min, clip, to_cupy, x, y,
                   total_size, gridx, result, exc, log, outcome, launches>>

\* faulty variant: the conversion is computed and its value dropped
astype_float32_dropped(a, b) == a

\* a.astype(cupy.float32), assigned to cupy_img: a copy in buffer b (line 96)
astype_float32(a, b) == [a EXCEPT !.dtype = "float32", !.buf = b]

\* lines 89-96
CheckDtype ==
    /\ pc = "dtype"
    /\ Step("dtype")
    /\ IF cupy_img.dtype # "float32"
       THEN IF ~can_cast_float32(img.dtype)
            THEN /\ Raise(cast_error)
                 /\ UNCHANGED <<cupy_img, heap>>
            ELSE /\ cupy_img' = astype_float32(cupy_img, Len(heap) + 1)
                 /\ heap' = NewBuf(F32Seq(heap[cupy_img.buf]))
                 /\ pc' = "derive"
                 /\ UNCHANGED exc
       ELSE /\ pc' = "derive"
            /\ UNCHANGED <<cupy_img, heap, exc>>
    /\ UNCHANGED <<args, img, b_max, b_min, a_max, a_min, clip, to_cupy, x, y,
                   total_size, gridx, result, log, outcome, launches>>


(***************************************************************************)
(* Lines 98-104: the coefficients and the clamp bounds.                    *)
(***************************************************************************)
\* line 100
scale_x(bmax, bmin, amax, amin) == FDiv(FSub(bmax, bmin), FSub(amax, amin))

\* line 101
offset_y(amin, xx, bmin) == FSub(FMul(amin, xx), bmin)

Derive ==
    /\ pc = "derive"
    /\ Step("derive")
    /\ x' = scale_x(b_max, b_min, a_max, a_min)
    /\ y' = offset_y(a_min, x', b_min)
    /\ IF clip = FALSE
       THEN b_max' = PInf /\ b_min' = NInf
       ELSE UNCHANGED <<b_max, b_min>>
    /\ pc' = "geometry"
    /\ UNCHANGED <<args, heap, img, a_max, a_min, clip, to_cupy, cupy_img,
                   total_size, gridx, result, exc, log, outcome, launches>>

(***************************************************************************)
(* Lines 106-116: the launch geometry, the output buffer and the launch.   *)
(***************************************************************************)
blockx == 128

\* line 109: int((t - 1) / bx + 1).  (t - 1) / bx is q + r/bx with
\* 0 <= r/bx < 1, exactly, in binary64; int() truncates toward zero.
grid_width(t, bx) ==
    LET m == WAddInt(t, -1)
        q == WDiv(m, bx)
        r == WMod(m, bx)
    IN  IF q + 1 >= 0 \/ r = 0 THEN q + 1 ELSE q + 2

Geometry ==
    /\ pc = "geometry"
    /\ Step("geometry")
    /\ total_size' = np_prod(img.shape)
    /\ gridx' = grid_width(total_size', blockx)
    /\ pc' = "alloc"
    /\ UNCHANGED <<args, heap, img, b_max, b_min, a_max, a_min, clip, to_cupy,
                   cupy_img, x, y, result, exc, log, outcome, launches>>

\* cupy.empty leaves the buffer uninitialised: an element holds Uninit until
\* it is written; left unwritten it reads as any of Garbage
Uninit == [k |-> "uninit", n |-> 0, d |-> 1]

Garbage == {F(-12345), NaN}

\* faulty variant: the kernel is given the working buffer as its output
cupy_empty_in_place(shape, dtype, b) == cupy_img

\* cupy.empty(shape, dtype) in buffer b (line 111)
cupy_empty(shape, dtype, b) ==
    [k |-> "ndarray", lib |-> "cupy", dtype |-> dtype, shape |-> shape,
     contig |-> TRUE, buf |-> b]

AllocResult ==
    /\ pc = "alloc"
    /\ Step("alloc")
    /\ result' = cupy_empty(img.shape, cupy_img.dtype, Len(heap) + 1)
    /\ heap' = NewBuf([i \in 1..TrackLen(img.shape) |-> Uninit])
    /\ pc' = "launch"
    /\ UNCHANGED <<args, img, b_max, b_min, a_max, a_min, clip, to_cupy,
                   cupy_img, x, y, total_size, gridx, exc, log, outcome,
                   launches>>

\* clamp(v, lo, hi) of the kernel.  Of a NaN, and with lo > hi, the result
\* depends on how the kernel writes its clamp (fminf/fmaxf, comparisons).
Clamp(v, lo, hi) ==
    IF IsNaN(v) THEN {NaN, lo, hi}
    ELSE IF FLt(hi, lo) THEN {lo, hi}
    ELSE {IF FLt(v, lo) THEN lo ELSE IF FLt(hi, v) THEN hi ELSE v}

\* what an element holding old reads as
Held(old) == IF old = Uninit THEN Garbage ELSE {old}

\* the thread of the kernel scaleVolume with linear index tid: what it leaves
\* in output[tid], which held old
scaleVolume(inv, old, tid, xx, yy, lo, hi, n) ==
    IF tid < n THEN Clamp(F32(FSub(FMul(inv, xx), yy)), lo, hi) ELSE Held(old)

\* the launch of gx blocks of bx threads has a thread of linear index tid
HasThread(tid, gx, bx) == tid \div bx < gx

\* lines 113-116
Launch ==
    /\ pc = "launch"
    /\ Step("launch")
    /\ LET n == np_int32(total_size)
           inp == heap[cupy_img.buf]
           old == heap[result.buf]
           outs == [i \in 1..Len(old) |->
                      IF HasThread(i - 1, gridx, blockx)
                      THEN scaleVolume(inp[i], old[i], i - 1, F32(x), F32(y),
                                       F32(b_min), F32(b_max), n)
                      ELSE Held(old[i])]
       IN  /\ \E out \in PickEach(outs) : heap' = [heap EXCEPT ![result.buf] = out]
           /\ launches' = Append(launches,
                                 [grid |-> gridx, block |-> blockx, n |-> n,
                                  input |-> cupy_img, output |-> result])
    /\ pc' = "cast_back"
    /\ UNCHANGED <<args, img, b_max, b_min, a_max, a_min, clip, to_cupy,
                   cupy_img, x, y, total_size, gridx, result, exc, log, outcome>>

(***************************************************************************)
(* Lines 118-128: the result in img's element type and memory.             *)
(***************************************************************************)
\* faulty variant: the cast is computed and its value dropped
astype_result_dropped(a, t, b) == a

\* a.astype(t), assigned to result: a copy in buffer b (line 119)
astype_result(a, t, b) == [a EXCEPT !.dtype = t, !.buf = b]

\* lines 118-119
CastBack ==
    /\ pc = "cast_back"
    /\ Step("cast_back")
    /\ IF img.dtype # "float32"
       THEN /\ result' = astype_result(result, img.dtype, Len(heap) + 1)
            /\ \E c \in PickEach([i \in 1..Len(heap[result.buf]) |->
                                    AstypeFromF32(heap[result.buf][i], img.dtype)]) :
                  heap' = NewBuf(c)
       ELSE UNCHANGED <<result, heap>>
    /\ pc' = "to_host"
    /\ UNCHANGED <<args, img, b_max, b_min, a_max, a_min, clip, to_cupy,
                   cupy_img, x, y, total_size, gridx, exc, log, outcome,
                   launches>>

\* cupy.asnumpy(a): a host copy in buffer b (line 122)
cupy_asnumpy(a, b) == [a EXCEPT !.lib = "numpy", !.buf = b]

\* lines 121-122
ToHost ==
    /\ pc = "to_host"
    /\ Step("to_host")
    /\ IF to_cupy = TRUE
       THEN /\ result' = cupy_asnumpy(result, Len(heap) + 1)
            /\ heap' = NewBuf(heap[result.buf])
       ELSE UNCHANGED <<result, heap>>
    /\ pc' = "return"
    /\ UNCHANGED <<args, img, b_max, b_min, a_max, a_min, clip, to_cupy,
                   cupy_img, x, y, total_size, gridx, exc, log, outcome,
                   launches>>

\* line 128
Return ==
    /\ pc = "return"
    /\ Step("return")
    /\ outcome' = [k |-> "return", value |-> result]
    /\ pc' = "done"
    /\ UNCHANGED <<args, heap, img, b_max, b_min, a_max, a_min, clip, to_cupy,
                   cupy_img, x, y, total_size, gridx, result, exc, log, launches>>

\* faulty variant: the handler re-raises without logging
logger_error_skipped(lg, e) == lg

\* _logger.error("[cucim] " + str(e), exc_info=True) (line 125)
logger_error(lg, e) ==
    Append(lg, [level |-> "error", msg |-> "[cucim] " \o e.msg, exc_info |-> TRUE])

\* the bare raise of line 126: the exception caught propagates
reraise(e) == [k |-> "raise", exc |-> e]

\* lines 124-126
HandleException ==
    /\ pc = "except"
    /\ Step("except")
    /\ log' = logger_error(log, exc)
    /\ outcome' = reraise(exc)
    /\ pc' = "done"
    /\ UNCHANGED <<args, heap, img, b_max, b_min, a_max, a_min, clip, to_cupy,
                   cupy_img, x, y, total_size, gridx, result, exc, launches>>

Next ==
    \/ CheckRange
    \/ NormalizeHost
    \/ RejectType
    \/ NormalizeDevice
    \/ CheckDtype
    \/ Derive
    \/ Geometry
    \/ AllocResult
    \/ Launch
    \/ CastBack
    \/ ToHost
    \/ Return
    \/ HandleException

Spec == Init /\ [][Next]_vars


(***************************************************************************)
(* What the caller observes.                                               *)
(***************************************************************************)
Ended == pc = "done"

Returned == outcome.k = "return"

Raised == outcome.k = "raise"

RaisedWith(type, msg) == Raised /\ outcome.exc.type = type /\ outcome.exc.msg = msg

RangeMsg == "Original intensity range min and max are same"

TypeMsg == "img must be a cupy.ndarray or numpy.ndarray"

CastMsg == "Cannot safely cast type {cupy_img.dtype.name} to                     'float32'"

\* the contents of the array returned
Output == heap[outcome.value.buf]

FMin(a, b) == IF FLt(b, a) THEN b ELSE a

FMax(a, b) == IF FLt(a, b) THEN b ELSE a

\* the coefficients are dyadic: the binary64 arithmetic of lines 100-101 is
\* exact on the inputs of the model
CoefficientsExact ==
    /\ (x # None /\ IsFin(x)) => IsPow2(x.d)
    /\ (y # None /\ IsFin(y)) => IsPow2(y.d)

WLeW(v, w) == v.hi < w.hi \/ (v.hi = w.hi /\ v.lo <= w.lo)

IsPrefix(s, t) == Len(s) <= Len(t) /\ s = SubSeq(t, 1, Len(s))

(***************************************************************************)
(* C1.  A call with an array img that returns, returns an array of img's   *)
(* shape, element type and memory (numpy stays numpy, cupy stays cupy).    *)
(***************************************************************************)
C1_SameShapeTypeLocation ==
    (Returned /\ IsArray(args.img)) =>
        /\ IsArray(outcome.value)
        /\ outcome.value.shape = args.img.shape
        /\ outcome.value.dtype = args.img.dtype
        /\ outcome.value.lib = args.img.lib

\* a host uint8 array has come back: cast back and copied back
C1_Witness ==
    /\ Returned
    /\ ~FEq(args.a_max, args.a_min)
    /\ args.img.lib = "numpy" /\ args.img.dtype = "uint8"
    /\ args.img.shape = <<2, 3, 5, 5>>

(***************************************************************************)
(* C2.  A call with a_max == a_min ends in the degenerate-range ValueError *)
(* whatever the other arguments are, and the check is the first step: the  *)
(* call does nothing else before it raises.                                *)
(***************************************************************************)
C2_EqualRangeAlwaysRaises ==
    (Ended /\ FEq(args.a_max, args.a_min)) =>
        /\ RaisedWith("ValueError", RangeMsg)
        /\ trace = <<"range", "except">>

(***************************************************************************)
(* C3, as claimed.  A call whose img is no array ends in the TypeError for *)
(* every value of a_min, a_max, b_min, b_max and clip.                     *)
(***************************************************************************)
C3_NonArrayAlwaysTypeError ==
    (Ended /\ ~IsArray(args.img)) => RaisedWith("TypeError", TypeMsg)

(***************************************************************************)
(* C3, amended.  A call whose img is no array ends in the TypeError when   *)
(* a_max - a_min is not 0.0, and in the degenerate-range ValueError when   *)
(* it is: the range check of line 76 comes first.                          *)
(***************************************************************************)
C3_NonArrayTypeErrorAfterRangeCheck ==
    (Ended /\ ~IsArray(args.img)) =>
        IF RangeIsZero(args.a_max, args.a_min)
        THEN RaisedWith("ValueError", RangeMsg)
        ELSE RaisedWith("TypeError", TypeMsg)

\* a string has been rejected
C3_Witness ==
    /\ Ended
    /\ args.img.k = "str"
    /\ ~RangeIsZero(args.a_max, args.a_min)
    /\ Raised /\ outcome.exc.type = "TypeError"

(***************************************************************************)
(* C4.  For an array img whose element type is not float32 and cannot be   *)
(* cast safely to float32, the call fails with the unsafe-cast ValueError  *)
(* before any kernel launch (the range check having passed), on the host   *)
(* as on the device.                                                       *)
(***************************************************************************)
C4_UnsafeCastRejected ==
    (IsArray(args.img) /\ ~can_cast_float32(args.img.dtype)) =>
        /\ launches = << >>
        /\ (Ended /\ ~RangeIsZero(args.a_max, args.a_min)) =>
              RaisedWith("ValueError", CastMsg)

(***************************************************************************)
(* C5.  With clip true and finite a_min # a_max, every element of the array       *)
(* returned lies in [min(b_min, b_max), max(b_min, b_max)], whatever the   *)
(* element type and memory of img.                                         *)
(***************************************************************************)
C5_ClampLaw ==
    (/\ Returned /\ args.clip
     /\ IsFin(args.a_max) /\ IsFin(args.a_min) /\ ~FEq(args.a_max, args.a_min)) =>
        \A i \in 1..Len(Output) :
            /\ FLe(FMin(args.b_min, args.b_max), Output[i])
            /\ FLe(Output[i], FMax(args.b_min, args.b_max))

(***************************************************************************)
(* C6.  With clip false (finite a_min # a_max, a float32 img), the output  *)
(* is the affine map out[i] = in[i]*x - y, x = (b_max-b_min)/(a_max-a_min),*)
(* y = a_min*x - b_min: a_min maps to b_min, a_max to b_max, and a_max + d *)
(* to b_max + d*x.                                                         *)
(***************************************************************************)
C6_AffineMap ==
    (/\ Returned /\ ~args.clip
     /\ IsFin(args.a_max) /\ IsFin(args.a_min) /\ ~FEq(args.a_max, args.a_min)
     /\ args.img.dtype = "float32") =>
        LET xx == FDiv(FSub(args.b_max, args.b_min), FSub(args.a_max, args.a_min))
            yy == FSub(FMul(args.a_min, xx), args.b_min)
        IN  \A i \in 1..Len(Output) :
               LET v == args.data[i] IN
               /\ Output[i] = FSub(FMul(v, xx), yy)
               /\ Output[i] = FAdd(args.b_max, FMul(FSub(v, args.a_max), xx))
               /\ (v = args.a_min => Output[i] = args.b_min)
               /\ (v = args.a_max => Output[i] = args.b_max)

(***************************************************************************)
(* C7.  A call ends in exactly one of two ways: it returns an array, or it *)
(* raises.  When it raises, exactly one error record has been logged, with *)
(* the prefix and the message of the error, and the error the caller gets  *)
(* is the error that was raised; nothing is logged otherwise.              *)
(***************************************************************************)
C7_OneOutcomeOneLogRecord ==
    /\ Ended => (Returned \/ Raised)
    /\ (outcome = None) <=> ~Ended
    /\ Returned => (IsArray(outcome.value) /\ exc = None /\ log = << >>)
    /\ Raised => /\ outcome.exc = exc
                 /\ exc # None
                 /\ result = None
                 /\ Len(log) = 1
                 /\ log[1].level = "error"
                 /\ log[1].msg = "[cucim] " \o exc.msg
    /\ ~Ended => log = << >>

\* the unsafe-cast error has reached the caller
C7_Witness == Ended /\ RaisedWith("ValueError", CastMsg) /\ Len(log) = 1

(***************************************************************************)
(* C8.  The call never changes img: its contents, shape and element type   *)
(* are what the caller passed, in every state; and the array returned is   *)
(* in a buffer allocated by the call, never img's buffer, and no launch    *)
(* writes img's buffer.                                                    *)
(***************************************************************************)
C8_InputUntouchedOutputFresh ==
    /\ img = args.img
    /\ IsArray(args.img) => heap[args.img.buf] = args.data
    /\ \A j \in 1..Len(launches) : launches[j].output.buf # args.img.buf
    /\ Returned => /\ outcome.value.buf # args.img.buf
                   /\ outcome.value.buf \in 2..Len(heap)

\* a contiguous float32 device array, whose working buffer is img itself,
\* has been scaled
C8_Witness ==
    /\ Returned
    /\ args.img.lib = "cupy" /\ args.img.dtype = "float32" /\ args.img.contig
    /\ cupy_img.buf = args.img.buf
    /\ Output # args.data

(***************************************************************************)
(* C9.  total_size is the product of the dimensions, the block width is    *)
(* 128, the grid width is ceil(total_size / 128), so that grid * 128 >=    *)
(* total_size > (grid - 1) * 128, and the count the kernel is handed as a  *)
(* 32-bit integer equals total_size.                                       *)
(***************************************************************************)
GridIsCeil ==
    \A j \in 1..Len(launches) :
        LET l == launches[j]
            t == np_prod(args.img.shape)
        IN  /\ total_size = t
            /\ l.block = 128
            /\ WLeW(t, WMul(WOfInt(l.grid), l.block))
            /\ ~WLeW(t, WMul(WOfInt(l.grid - 1), l.block))

C9_GeometryAndCount ==
    /\ GridIsCeil
    /\ \A j \in 1..Len(launches) :
          launches[j].n >= 0 /\ WOfInt(launches[j].n) = np_prod(args.img.shape)

(***************************************************************************)
(* C10.  The statements run in the one order Normalize, Derive, Dispatch,  *)
(* Rehydrate; a call that raises the range, type or cast error has         *)
(* launched nothing; a call that returns has launched exactly once, on a   *)
(* contiguous float32 device buffer, after the checks; the cast back and   *)
(* the host copy come after the launch, in that order.                     *)
(***************************************************************************)
StatementOrder ==
    <<"range", "classify", "dtype", "derive", "geometry", "alloc", "launch",
      "cast_back", "to_host", "return">>

C10_PipelineOrder ==
    /\ IF exc = None
       THEN IsPrefix(trace, StatementOrder)
       ELSE \E j \in 1..3 :
               \/ trace = SubSeq(StatementOrder, 1, j)
               \/ trace = Append(SubSeq(StatementOrder, 1, j), "except")
    /\ Raised => launches = << >>
    /\ Len(launches) <= 1
    /\ Returned => Len(launches) = 1
    /\ (launches # << >>) <=> (Len(trace) >= 7)
    /\ \A j \in 1..Len(launches) :
          /\ launches[j].input.lib = "cupy"
          /\ launches[j].input.dtype = "float32"
          /\ launches[j].input.contig

\* a non-contiguous uint8 device array has gone through every stage
C10_Witness ==
    /\ Returned
    /\ args.img.lib = "cupy" /\ args.img.dtype = "uint8" /\ ~args.img.contig
    /\ trace = StatementOrder
    /\ Len(launches) = 1

=============================================================================
